---- MODULE Spec2Model ----
(***************************************************************************)
(* Verification model of the request-analysis path of the legal-aid        *)
(* backend: the result normalizer (model_service.normalize_ollama_response)*)
(* the Primary/Secondary orchestration (ai_service.analyze_legal_query,    *)
(* model_service.analyze_legal_query_with_fallback, analyze_with_openai)   *)
(* and the retrieval client (rag_service.retrieve_relevant_context,        *)
(* pinecone_service.query_vectors).                                        *)
(*                                                                         *)
(* The module holds eight specifications over one set of variables:        *)
(*   SpecNorm      the normalizer applied to bounded input maps            *)
(*   Spec          process start-up followed by one analysis request       *)
(*   SpecRetrieve  one call of retrieve_relevant_context                   *)
(*   SpecOllama    one call of analyze_with_ollama                         *)
(*   SpecLoop      concurrent requests on the one event loop of the        *)
(*                 process (SpecLoopFair: the same with fairness)          *)
(*   SpecPrompt    one call of build_system_prompt and build_user_prompt   *)
(*   SpecIndex     one upload through /transcribe or /index-document       *)
(*   SpecDb        the relational store under concurrent requests and the  *)
(*                 background processing of a query                        *)
(* Each specification keeps the variables of the others at their idle      *)
(* values.                                                                 *)
(***************************************************************************)
EXTENDS Integers, Sequences, FiniteSets, TLC

VARIABLES
    \* ---- normalizer (SpecNorm) ----
    response,        \* the map handed to normalize_ollama_response
    normalized,      \* the map it returned
    renormalized,    \* the map it returned when handed its own result
    normPc,          \* "start" | "done" | "again"
    \* ---- start-up and one analysis request (Spec) ----
    apiKey,          \* settings.OPENAI_API_KEY: "" | " " | "sk"
    client,          \* ai_service.client is initialized (not None)
    offline,         \* settings.USE_OFFLINE_MODE
    secretKey,       \* OPENAI_API_KEY that load_secrets finds (AWS / environment)
    userCtx,         \* user_context of the request
    reqPc,           \* position of the request
    probe,           \* outcome of wait_for(check_openai_connection(), 1.0)
    primaryCalls,    \* chat-completion requests issued to OpenAI in this request
    secondaryCalls,  \* requests (probe or inference) issued to Ollama in this request
    attempts,        \* outcomes of the Primary attempts, in order
    payload,         \* message.content of the last chat-completion answer received
    fbOutcome,       \* how analyze_legal_query_with_fallback ended
    result,          \* the map returned to the caller
    outcome,         \* "pending" | "result" | "error"
    cause,           \* root cause of the exception in flight / surfaced
    \* ---- retrieval (SpecRetrieve) ----
    ragIn,           \* inputs and environment of one retrieve_relevant_context call
    ragPc,           \* "start" | "done"
    ragOut,          \* what the call did: [raised, value]
    \* ---- Secondary client (SpecOllama) ----
    ollIn,           \* device, configuration and server answer of one analyze_with_ollama call
    ollPc,           \* "start" | "done"
    ollOut,          \* the request it sent and how it ended
    \* ---- concurrent requests on the event loop (SpecLoop) ----
    taskRag,         \* per request: retrieval runs (not skipped by configuration)
    taskBackend,     \* per request: "primary" (analyze_legal_query) | "secondary"
    taskPc,          \* per request: what it does next
    taskCall,        \* per request: the external call in flight, or "none"
    loopOwner,       \* the request the event loop is running, 0 when it is free
    \* ---- prompt builder (SpecPrompt) ----
    promptIn,        \* the arguments of the two builders and the module they come from
    promptPc,        \* "start" | "done"
    promptOut,       \* the system prompt and the user prompt
    \* ---- upload endpoints and document indexing (SpecIndex) ----
    idxIn,           \* the request, the document and the environment of one upload
    idxPc,           \* position of the handler
    tmpExists,       \* the temporary file of the handler exists on disk
    idxVectors,      \* the vectors index_document built, in order
    idxBatch,        \* i of the batch loop: vectors already handed to upsert_vectors
    idxReturns,      \* what upsert_vectors returned, batch by batch
    idxStore,        \* ids held by the vector index
    idxOut,          \* value of index_document / the handler's HTTP status
    \* ---- relational store and its endpoints (SpecDb) ----
    dbQueries,       \* table queries: per id a row [user_id, status] or NoRow
    dbResponses,     \* table ai_responses: rows [id, query_id]
    dbFeedback,      \* table feedback: rows [query_id, user_id, rating, was_helpful], oldest first
    deleted,         \* ids of the queries whose delete_query committed
    lastFeedback,    \* per query: the values of the last committed submit_feedback
    procPc,          \* per query: position of its background process_query_async
    reqs             \* the HTTP requests on the store, each with its own session

normVars == <<response, normalized, renormalized, normPc>>
reqVars  == <<apiKey, client, offline, secretKey, userCtx, reqPc, probe, primaryCalls,
              secondaryCalls, attempts, payload, fbOutcome, result, outcome, cause>>
ragVars  == <<ragIn, ragPc, ragOut>>
ollVars  == <<ollIn, ollPc, ollOut>>
loopVars == <<taskRag, taskBackend, taskPc, taskCall, loopOwner>>
promptVars == <<promptIn, promptPc, promptOut>>
idxVars  == <<idxIn, idxPc, tmpExists, idxVectors, idxBatch, idxReturns, idxStore, idxOut>>
dbVars   == <<dbQueries, dbResponses, dbFeedback, deleted, lastFeedback, procPc, reqs>>
vars     == <<normVars, reqVars, ragVars, ollVars, loopVars, promptVars, idxVars, dbVars>>

(***************************************************************************)
(* Python values.  Every value is a record of the same shape so that any   *)
(* two values can be compared:                                             *)
(*   t  the Python type ("missing" stands for an absent key)               *)
(*   n  the number of a bool (0/1) or int; a float holds its value * 10    *)
(*   s  the text of a str                                                  *)
(*   l  the items of a list (each item named by a string); for a str that  *)
(*      is given character by character (PyText), its characters           *)
(***************************************************************************)
Missing   == [t |-> "missing", n |-> 0, s |-> "", l |-> <<>>]
PyNone    == [t |-> "none",    n |-> 0, s |-> "", l |-> <<>>]
PyDict    == [t |-> "dict",    n |-> 0, s |-> "", l |-> <<>>]   \* some non-empty dict
PyBool(b) == [t |-> "bool",    n |-> IF b THEN 1 ELSE 0, s |-> "", l |-> <<>>]
PyInt(i)  == [t |-> "int",     n |-> i, s |-> "", l |-> <<>>]
PyFloat(tenths) == [t |-> "float", n |-> tenths, s |-> "", l |-> <<>>]
PyStr(x)  == [t |-> "str",     n |-> 0, s |-> x, l |-> <<>>]
PyList(q) == [t |-> "list",    n |-> 0, s |-> "", l |-> q]
PyText(cs) == [t |-> "str",    n |-> 0, s |-> "", l |-> cs]

Min(a, b) == IF a <= b THEN a ELSE b

\* The eleven fields of the analysis schema (ai_service.LEGAL_ANALYSIS_FUNCTION "required").
ListFields == {"pros", "cons", "preventive_roadmap", "legal_references", "warnings",
               "next_steps"}
StrFields  == {"risk_explanation", "analysis"}
Fields     == {"risk_level", "risk_score", "lawyer_consultation_recommended"}
                 \cup StrFields \cup ListFields
RiskLevels == {"low", "medium", "high"}

\* dict.get(key, default): the default is used only when the key is absent.
DictGet(d, k, default) == IF d[k].t = "missing" THEN default ELSE d[k]

(***************************************************************************)
(* Text.  A str is an atom; Spell gives its characters, on which int() and *)
(* str.lower() work.                                                       *)
(***************************************************************************)
Spell(x) ==
    CASE x = ""      -> <<>>
      [] x = "50"    -> <<"5", "0">>
      [] x = "150"   -> <<"1", "5", "0">>
      [] x = "-5"    -> <<"-", "5">>
      [] x = " 7 "   -> <<" ", "7", " ">>
      [] x = "7.5"   -> <<"7", ".", "5">>
      [] x = "high"  -> <<"h", "i", "g", "h">>
      [] x = "true"  -> <<"t", "r", "u", "e">>
      [] x = "TRUE"  -> <<"T", "R", "U", "E">>
      [] x = "Yes"   -> <<"Y", "e", "s">>
      [] x = "yes"   -> <<"y", "e", "s">>
      [] x = "1"     -> <<"1">>
      [] x = "no"    -> <<"n", "o">>
      [] x = "false" -> <<"f", "a", "l", "s", "e">>
      [] x = "abc"   -> <<"a", "b", "c">>
      [] x = " "     -> <<" ">>
      [] x = "sk"    -> <<"s", "k">>
      [] x = "Consult a local lawyer." ->
            <<"C", "o", "n", "s", "u", "l", "t", " ", "a", " ", "l", "o", "c", "a", "l", " ",
              "l", "a", "w", "y", "e", "r", ".">>

Digits == {"0", "1", "2", "3", "4", "5", "6", "7", "8", "9"}
DigitVal(c) ==
    CASE c = "0" -> 0 [] c = "1" -> 1 [] c = "2" -> 2 [] c = "3" -> 3 [] c = "4" -> 4
      [] c = "5" -> 5 [] c = "6" -> 6 [] c = "7" -> 7 [] c = "8" -> 8 [] c = "9" -> 9

RECURSIVE StripLeft(_)
StripLeft(cs) == IF cs # <<>> /\ Head(cs) = " " THEN StripLeft(Tail(cs)) ELSE cs
RECURSIVE StripRight(_)
StripRight(cs) ==
    IF cs # <<>> /\ cs[Len(cs)] = " " THEN StripRight(SubSeq(cs, 1, Len(cs) - 1)) ELSE cs
Strip(cs) == StripRight(StripLeft(cs))

RECURSIVE DigitsValue(_, _)
DigitsValue(cs, acc) ==
    IF cs = <<>> THEN acc ELSE DigitsValue(Tail(cs), 10 * acc + DigitVal(Head(cs)))

\* int(str): surrounding blanks are stripped, one optional sign, then decimal
\* digits only; anything else is a ValueError.
IntOfStr(x) ==
    LET cs     == Strip(Spell(x))
        signed == cs # <<>> /\ Head(cs) \in {"-", "+"}
        body   == IF signed THEN Tail(cs) ELSE cs
        valid  == body # <<>> /\ \A i \in 1..Len(body) : body[i] \in Digits
        mag    == IF valid THEN DigitsValue(body, 0) ELSE 0
    IN  [ok |-> valid, n |-> IF signed /\ Head(cs) = "-" THEN 0 - mag ELSE mag]

LowerChar(c) ==
    CASE c = "T" -> "t" [] c = "R" -> "r" [] c = "U" -> "u" [] c = "E" -> "e"
      [] c = "Y" -> "y" [] OTHER -> c
Lower(cs) == [i \in 1..Len(cs) |-> LowerChar(cs[i])]

\* bool(value): Python truthiness.
Truthy(v) ==
    CASE v.t \in {"missing", "none"} -> FALSE
      [] v.t \in {"bool", "int", "float"} -> v.n # 0
      [] v.t = "str"  -> v.s # ""
      [] v.t = "list" -> v.l # <<>>
      [] v.t = "dict" -> TRUE      \* PyDict stands for a non-empty dict

(***************************************************************************)
(* model_service.normalize_ollama_response                                 *)
(***************************************************************************)
\* lines 252-257: only a str risk_score is converted; every other type passes.
risk_score_of(resp) ==
    LET v == DictGet(resp, "risk_score", PyInt(50))
    IN  IF v.t = "str"
        THEN (IF IntOfStr(v.s).ok THEN PyInt(IntOfStr(v.s).n) ELSE PyInt(50))
        ELSE v

\* Mutant: every non-empty value that is not a str is wrapped, a list too; the
\* nesting is written as brackets around the items.
ensure_list_wrapping(value, default) ==
    IF value.t = "str" THEN (IF value.s # "" THEN PyList(<<value.s>>) ELSE default)
    ELSE IF value.t = "list" /\ value.l # <<>> THEN PyList(<<"[">> \o value.l \o <<"]">>)
    ELSE default

\* lines 260-266.  response.get(field) without default yields None when absent.
ensure_list(value, default) ==
    IF value.t = "list" THEN value
    ELSE IF value.t = "str" THEN (IF value.s # "" THEN PyList(<<value.s>>) ELSE default)
    ELSE default

\* Mutant: the recommendation is compared without lower().
lawyer_consultation_case_sensitive(resp) ==
    LET v == DictGet(resp, "lawyer_consultation_recommended", PyBool(TRUE))
    IN  IF v.t = "str"
        THEN PyBool(Spell(v.s) \in {Spell("true"), Spell("yes"), Spell("1")})
        ELSE PyBool(Truthy(v))

\* lines 269-271 and 283.
lawyer_consultation_of(resp) ==
    LET v == DictGet(resp, "lawyer_consultation_recommended", PyBool(TRUE))
    IN  IF v.t = "str"
        THEN PyBool(Lower(Spell(v.s)) \in {Spell("true"), Spell("yes"), Spell("1")})
        ELSE PyBool(Truthy(v))

DefaultRoadmap == PyList(<<"step 1: Review analysis (Important)">>)

ListDefault(f) == IF f = "preventive_roadmap" THEN DefaultRoadmap ELSE PyList(<<>>)

\* lines 273-287.
normalize_ollama_response(resp) ==
    [f \in Fields |->
        CASE f = "risk_level" -> DictGet(resp, f, PyStr("medium"))
          [] f = "risk_score" -> risk_score_of(resp)
          [] f = "risk_explanation" -> DictGet(resp, f, PyStr("Risk assessment provided"))
          [] f = "analysis" -> DictGet(resp, f, PyStr("Analysis not available"))
          [] f = "lawyer_consultation_recommended" -> lawyer_consultation_of(resp)
          [] OTHER -> ensure_list(DictGet(resp, f, PyNone), ListDefault(f))]

(***************************************************************************)
(* SpecNorm: normalize_ollama_response on bounded input maps.  An input is *)
(* a base map (nothing present, or everything present and well typed) in  *)
(* which at most MaxOverrides fields are replaced by any value of the      *)
(* field's value universe.                                                 *)
(***************************************************************************)
MaxOverrides == 1

AllMissing == [f \in Fields |-> Missing]

WellFormed ==
    [f \in Fields |->
        CASE f = "risk_level" -> PyStr("low")
          [] f = "risk_score" -> PyInt(20)
          [] f = "risk_explanation" -> PyStr("explanation")
          [] f = "analysis" -> PyStr("analysis text")
          [] f = "lawyer_consultation_recommended" -> PyBool(FALSE)
          [] f = "preventive_roadmap" -> PyList(<<"step 1: Send notice (High)">>)
          [] OTHER -> PyList(<<"item">>)]

FieldVals(f) ==
    CASE f = "risk_level" ->
            {Missing, PyNone, PyStr("high"), PyStr("critical"), PyInt(3)}
      [] f = "risk_score" ->
            {Missing, PyNone, PyInt(0), PyInt(100), PyInt(150), PyInt(0 - 5), PyFloat(75),
             PyList(<<>>), PyStr("50"), PyStr("150"), PyStr("-5"), PyStr(" 7 "),
             PyStr("7.5"), PyStr("abc"), PyStr("")}
      [] f \in StrFields ->
            {Missing, PyNone, PyStr("text"), PyStr(""), PyList(<<"text">>), PyInt(1)}
      [] f = "lawyer_consultation_recommended" ->
            {Missing, PyNone, PyBool(TRUE), PyBool(FALSE), PyInt(0), PyInt(1),
             PyStr("true"), PyStr("TRUE"), PyStr("Yes"), PyStr("1"), PyStr("no"),
             PyStr("false"), PyStr(""), PyList(<<>>)}
      [] OTHER ->
            {Missing, PyNone, PyList(<<>>), PyList(<<"a", "b">>), PyStr("a"), PyStr(""),
             PyDict, PyInt(3)}

OverrideSets == {S \in SUBSET Fields : Cardinality(S) <= MaxOverrides}

Overrides(S) ==
    {g \in [S -> UNION {FieldVals(f) : f \in S}] : \A f \in S : g[f] \in FieldVals(f)}

NormInputs ==
    UNION {{[f \in Fields |-> IF f \in S THEN g[f] ELSE base[f]] : g \in Overrides(S)} :
               S \in OverrideSets, base \in {AllMissing, WellFormed}}

\* Idle values of the three variable groups.
NormIdle ==
    /\ response = AllMissing
    /\ normalized = AllMissing
    /\ renormalized = AllMissing
    /\ normPc = "idle"

NoContext == [user_type |-> "missing", location |-> "missing"]

\* A result map: the analysis fields and the metadata analyze_with_openai adds.
MetaFields   == {"model_version", "processing_time_ms", "tokens_used"}
ResultFields == Fields \cup MetaFields
NoResult     == [f \in ResultFields |-> Missing]

ReqIdle ==
    /\ apiKey = ""
    /\ client = FALSE
    /\ offline = FALSE
    /\ secretKey = ""
    /\ userCtx = NoContext
    /\ reqPc = "idle"
    /\ probe = "none"
    /\ primaryCalls = 0
    /\ secondaryCalls = 0
    /\ attempts = <<>>
    /\ payload = "none"
    /\ fbOutcome = "none"
    /\ result = NoResult
    /\ outcome = "pending"
    /\ cause = "none"

NoRagInput ==
    [skip_if_offline |-> TRUE, offline |-> FALSE, key |-> "", embeddings |-> FALSE,
     embed |-> "ok", index |-> FALSE, query |-> "ok", hits |-> <<>>, top_k |-> 0]

RagIdle ==
    /\ ragIn = NoRagInput
    /\ ragPc = "idle"
    /\ ragOut = [raised |-> FALSE, value |-> <<>>]

NoOllamaInput == [edge |-> FALSE, model |-> "", resp |-> "none"]
NoOllamaOutput == [request |-> "none", reply |-> "none"]

OllIdle ==
    /\ ollIn = NoOllamaInput
    /\ ollPc = "idle"
    /\ ollOut = NoOllamaOutput

NumTasks == 2
Tasks == 1..NumTasks

LoopIdle ==
    /\ taskRag = [t \in Tasks |-> FALSE]
    /\ taskBackend = [t \in Tasks |-> "primary"]
    /\ taskPc = [t \in Tasks |-> "idle"]
    /\ taskCall = [t \in Tasks |-> "none"]
    /\ loopOwner = 0

NoPromptInput ==
    [module |-> "none", query_text |-> "", rag_context |-> [given |-> FALSE, chunks |-> <<>>],
     language |-> "", user_context |-> NoContext]

PromptIdle ==
    /\ promptIn = NoPromptInput
    /\ promptPc = "idle"
    /\ promptOut = [system |-> "none", user |-> <<>>]

NoUpload ==
    [endpoint |-> "none", ext |-> "", chunks |-> <<>>, read_ok |-> TRUE, processed_ok |-> TRUE,
     embed_ok |-> TRUE, index_initialized |-> TRUE, upsert_raises_at |-> 0]

NoIndexResult == [success |-> "none", status |-> 0]

IdxIdle ==
    /\ idxIn = NoUpload
    /\ idxPc = "idle"
    /\ tmpExists = FALSE
    /\ idxVectors = <<>>
    /\ idxBatch = 0
    /\ idxReturns = <<>>
    /\ idxStore = {}
    /\ idxOut = NoIndexResult

\* Number of HTTP requests that reach the relational store in one behaviour.
MaxRequests == 2

Slots == 1..MaxRequests

Users == {"u1", "u2"}

QueryIds == {"q1"}

NoRow == [user_id |-> "none", status |-> "none"]

NoFeedback == [rating |-> 0, was_helpful |-> FALSE]

NoRequest ==
    [op |-> "none", user |-> "none", query_id |-> "none", data |-> NoFeedback,
     pc |-> "idle", seen |-> 0, status |-> 0]

DbIdle ==
    /\ dbQueries = [q \in QueryIds |-> NoRow]
    /\ dbResponses = <<>>
    /\ dbFeedback = <<>>
    /\ deleted = {}
    /\ lastFeedback = [q \in QueryIds |-> NoFeedback]
    /\ procPc = [q \in QueryIds |-> "none"]
    /\ reqs = [r \in Slots |-> NoRequest]

NormInit ==
    /\ response \in NormInputs
    /\ normalized = AllMissing
    /\ renormalized = AllMissing
    /\ normPc = "start"
    /\ ReqIdle
    /\ RagIdle
    /\ OllIdle
    /\ LoopIdle
    /\ PromptIdle
    /\ IdxIdle
    /\ DbIdle

\* One call normalize_ollama_response(response, query_text).
Normalize ==
    /\ normPc = "start"
    /\ normalized' = normalize_ollama_response(response)
    /\ normPc' = "done"
    /\ UNCHANGED <<response, renormalized, reqVars, ragVars, ollVars, loopVars, promptVars, idxVars, dbVars>>

\* A second call, on the map the first call returned.
Renormalize ==
    /\ normPc = "done"
    /\ renormalized' = normalize_ollama_response(normalized)
    /\ normPc' = "again"
    /\ UNCHANGED <<response, normalized, reqVars, ragVars, ollVars, loopVars, promptVars, idxVars, dbVars>>

NormNext == Normalize \/ Renormalize

SpecNorm == NormInit /\ [][NormNext]_vars

\* A map carries every analysis field with its declared type.
WellTyped(m) ==
    /\ m["risk_level"].t = "str" /\ m["risk_level"].s \in RiskLevels
    /\ m["risk_score"].t = "int"
    /\ \A f \in StrFields : m[f].t = "str"
    /\ \A f \in ListFields : m[f].t = "list"
    /\ m["lawyer_consultation_recommended"].t = "bool"

\* C1: for every input map, the map normalize_ollama_response returns holds all
\* eleven analysis fields with their declared types (risk_level in the enum,
\* risk_score an integer, the two texts strings, the six list fields lists, the
\* recommendation a boolean).
C1_NormalizedWellTyped == normPc = "done" => WellTyped(normalized)

\* C13: after normalization risk_score is an integer between 0 and 100, whatever
\* the input held (nothing, a non-number, a number or numeric string outside the
\* range).
C13_RiskScoreInRange ==
    normPc = "done" =>
        /\ normalized["risk_score"].t = "int"
        /\ normalized["risk_score"].n >= 0
        /\ normalized["risk_score"].n <= 100

\* The coercion table, written out for the strings of the input universe.
IntegerStrings == {"50", "150", "-5", " 7 "}
IntegerSpelled(x) ==
    CASE x = "50" -> 50 [] x = "150" -> 150 [] x = "-5" -> 0 - 5 [] x = " 7 " -> 7
SpellsTrue == {"true", "TRUE", "Yes", "yes", "1"}

FieldDefault(f) ==
    CASE f = "risk_level" -> PyStr("medium")
      [] f = "risk_score" -> PyInt(50)
      [] f = "risk_explanation" -> PyStr("Risk assessment provided")
      [] f = "analysis" -> PyStr("Analysis not available")
      [] f = "lawyer_consultation_recommended" -> PyBool(TRUE)
      [] f = "preventive_roadmap" -> PyList(<<"step 1: Review analysis (Important)">>)
      [] OTHER -> PyList(<<>>)

\* The parts of the table that concern the score, the recommendation and the
\* missing fields.
CoercesScalars ==
    /\ (response["risk_score"].t = "str" /\ response["risk_score"].s \in IntegerStrings)
          => normalized["risk_score"] = PyInt(IntegerSpelled(response["risk_score"].s))
    /\ response["lawyer_consultation_recommended"].t = "str"
          => normalized["lawyer_consultation_recommended"]
                 = PyBool(response["lawyer_consultation_recommended"].s \in SpellsTrue)
    /\ \A f \in Fields : response[f].t = "missing" => normalized[f] = FieldDefault(f)

\* C14: a string-typed integer risk_score becomes that integer, a string-typed
\* recommendation becomes the boolean it spells (true for "true"/"yes"/"1" in any
\* letter case, false otherwise), a scalar string given for a list field becomes
\* the singleton list holding it, and a missing field gets its default.
C14_CoercionTable ==
    normPc = "done" =>
        /\ CoercesScalars
        /\ \A f \in ListFields :
              response[f].t = "str" => normalized[f] = PyList(<<response[f].s>>)

\* C14 as amended: as above, except that only a non-empty scalar string given for
\* a list field becomes the singleton list holding it; the empty string is
\* replaced by the field's default.
C14_CoercionTableNonEmpty ==
    normPc = "done" =>
        /\ CoercesScalars
        /\ \A f \in ListFields :
              response[f].t = "str" =>
                  normalized[f] = IF response[f].s # "" THEN PyList(<<response[f].s>>)
                                  ELSE FieldDefault(f)

\* A normalized input in which a list field held a scalar string and the other
\* fields were missing.
C14_Witness ==
    /\ normPc = "done"
    /\ \E f \in ListFields : response[f] = PyStr("a") /\ normalized[f] = PyList(<<"a">>)
    /\ response["risk_score"].t = "missing"
    /\ normalized["risk_score"] = PyInt(50)

\* C12: normalizing a map that normalize_ollama_response returned gives that map
\* again.
C12_NormalizeIdempotent == normPc = "again" => renormalized = normalized

\* A partially populated input that the first call changed (a scalar string for a
\* list field, a string for the score or the recommendation) and that went
\* through the second call.
C12_Witness ==
    /\ normPc = "again"
    /\ \E f \in Fields : response[f].t = "missing"
    /\ \E f \in Fields : response[f].t = "str" /\ normalized[f].t # "str"

(***************************************************************************)
(* Spec: process start-up, then one analysis request                       *)
(* (ai_service.analyze_legal_query with use_fallback=True, the value every *)
(* caller in the repository uses).                                         *)
(***************************************************************************)
Keys == {"", " ", "sk"}

\* model_service.py lines 14-20.  ai_service imports openai unconditionally, so a
\* process that serves requests has the library.
OPENAI_AVAILABLE == TRUE

OPENAI_MODEL == "gpt-4o-mini"

\* user_context maps: user_type and location are absent ("missing") or present;
\* a present location is a map or None.  NoContext is the empty / absent map.
UserContexts == [user_type : {"missing", "farmer"}, location : {"missing", "map", "none"}]

\* What the chat-completion endpoint can answer.
PayloadObjects ==
    {WellFormed, AllMissing, [WellFormed EXCEPT !["risk_score"] = PyStr("50")],
     [WellFormed EXCEPT !["warnings"] = Missing]}

RawText == "Consult a local lawyer."

ProviderResponses ==
    {[kind |-> k, content |-> "empty", text |-> <<>>, obj |-> AllMissing, usage |-> FALSE] :
        k \in {"unreachable", "timeout"}}
    \cup {[kind |-> "response", content |-> c,
           text |-> IF c = "text" THEN Spell(RawText) ELSE <<>>,
           obj |-> AllMissing, usage |-> u] :
            c \in {"empty", "text", "json_list"}, u \in BOOLEAN}
    \cup {[kind |-> "response", content |-> "json_object", text |-> <<>>, obj |-> o,
           usage |-> u] :
            o \in PayloadObjects, u \in BOOLEAN}

Raise(c) == [raised |-> TRUE,  cause |-> c,    value |-> NoResult, requested |-> FALSE]
Return(v) == [raised |-> FALSE, cause |-> "ok", value |-> v,        requested |-> TRUE]
Requested(r) == [r EXCEPT !.requested = TRUE]

\* model_service.check_openai_connection, lines 27-36.
check_openai_connection(key) == OPENAI_AVAILABLE /\ key # ""

\* ai_service.build_system_prompt, lines 260-283: location.get(...) on a location
\* that is present but not a map raises AttributeError.
build_system_prompt(ctx) ==
    LET given     == ctx # NoContext
        user_type == IF given /\ ctx.user_type # "missing" THEN ctx.user_type ELSE "citizen"
        location  == IF given /\ ctx.location # "missing" THEN ctx.location ELSE "empty_map"
    IN  [raised |-> location \notin {"map", "empty_map"}, user_type |-> user_type,
         location |-> location]

\* The stub built when json.loads fails (model_service lines 136-148,
\* ai_service lines 218-230).
ParseFailureStub(text) ==
    [f \in Fields |->
        CASE f = "analysis" -> PyStr(text)
          [] f = "risk_level" -> PyStr("medium")
          [] f = "risk_score" -> PyInt(50)
          [] f = "risk_explanation" -> PyStr("Analysis provided but JSON parsing failed")
          [] f = "lawyer_consultation_recommended" -> PyBool(FALSE)
          [] OTHER -> PyList(<<>>)]

\* result.update({...}), model_service lines 152-160, ai_service lines 234-242.
WithMetadata(obj, resp) ==
    [f \in ResultFields |->
        CASE f = "model_version" -> PyStr(OPENAI_MODEL)
          [] f = "processing_time_ms" -> PyInt(0)
          [] f = "tokens_used" -> IF resp.usage THEN PyInt(1) ELSE PyNone
          [] OTHER -> obj[f]]

\* Mutant: json.loads without the except clause for JSONDecodeError.
parse_completion_strict(resp) ==
    CASE resp.content = "empty"     -> Requested(Raise("no_content"))
      [] resp.content = "text"      -> Requested(Raise("not_json"))
      [] resp.content = "json_list" -> Requested(Raise("not_object"))
      [] resp.content = "json_object" -> Return(WithMetadata(resp.obj, resp))

\* Parsing of the chat-completion answer (model_service lines 129-162, ai_service
\* lines 210-253): empty content raises ValueError; text that is not JSON gives the
\* stub; JSON that is not an object has no update() and raises AttributeError; a
\* JSON object is returned as it came, with the metadata added.
parse_completion(resp) ==
    CASE resp.content = "empty"     -> Requested(Raise("no_content"))
      [] resp.content = "text"      -> Return(WithMetadata(ParseFailureStub(RawText), resp))
      [] resp.content = "json_list" -> Requested(Raise("not_object"))
      [] resp.content = "json_object" -> Return(WithMetadata(resp.obj, resp))

\* The chat-completion call and what follows it (model_service lines 87-166,
\* ai_service lines 165-257).
call_openai(ctx, resp) ==
    IF build_system_prompt(ctx).raised THEN Raise("prompt_error")
    ELSE IF resp.kind # "response" THEN Requested(Raise(resp.kind))
    ELSE parse_completion(resp)

\* model_service.analyze_with_openai, lines 68-166.
analyze_with_openai(cl, ctx, resp) ==
    IF ~cl THEN Raise("client_uninitialized") ELSE call_openai(ctx, resp)

\* text[:1000], model_service line 335.
ANALYSIS_LIMIT == 1000

StubFields(analysis) ==
    [f \in ResultFields |->
        CASE f = "risk_level" -> PyStr("medium")
          [] f = "risk_score" -> PyInt(50)
          [] f = "risk_explanation" -> PyStr("Analysis based on provided context")
          [] f = "analysis" -> PyText(analysis)
          [] f = "preventive_roadmap" -> PyList(<<"step 1: Review the analysis provided">>)
          [] f = "warnings" ->
               PyList(<<"This is an automated analysis. Consult a lawyer for complex matters.">>)
          [] f = "lawyer_consultation_recommended" -> PyBool(TRUE)
          [] f = "next_steps" ->
               PyList(<<"Review the analysis", "Consider professional consultation">>)
          [] f \in MetaFields -> Missing
          [] OTHER -> PyList(<<>>)]

\* Mutant: the stub takes the whole text.
create_structured_response_untruncated(text) == StubFields(text)

\* model_service.create_structured_response_from_text, lines 329-349; text is the
\* sequence of the characters of message.content.
create_structured_response_from_text(text) ==
    StubFields(SubSeq(text, 1, Min(ANALYSIS_LIMIT, Len(text))))

\* model_service.analyze_with_ollama, lines 230-246: the answer to the POST to
\* /api/chat, then the parsing of message.content.  Only JSONDecodeError is
\* caught: content that is null makes json.loads raise TypeError, JSON that is
\* not an object has no get().
analyze_with_ollama(resp) ==
    IF resp.kind # "response" THEN Requested(Raise(resp.kind))
    ELSE CASE resp.content \in {"empty", "text"} ->
                Return(create_structured_response_from_text(resp.text))
           [] resp.content = "null" -> Requested(Raise("null_content"))
           [] resp.content = "json_list" -> Requested(Raise("not_object"))
           [] resp.content = "json_object" ->
                Return([f \in ResultFields |->
                          IF f \in MetaFields THEN Missing
                          ELSE normalize_ollama_response(resp.obj)[f]])

\* model_service.analyze_legal_query_with_fallback, lines 366-391: which way the
\* orchestrator goes once the key check and the probe are known.
fallback_route(key, probed) ==
    IF key = "" THEN "raise"
    ELSE IF probed = "timeout" THEN "via_openai"
    ELSE IF probed = "true" THEN "via_openai"
    ELSE "raise"

\* Mutant: after a failure of the fallback system the Secondary is tried.
after_fallback_failure_ollama(off, cl) ==
    IF off THEN "raise_offline" ELSE "direct_ollama"

\* ai_service.analyze_legal_query, lines 150-161: the except branch taken when
\* analyze_legal_query_with_fallback raised.
after_fallback_failure(off, cl) ==
    IF off THEN "raise_offline"
    ELSE IF ~cl THEN "raise_no_service"
    ELSE "direct_openai"

ReqInit ==
    /\ apiKey \in Keys
    /\ secretKey \in Keys
    /\ offline \in BOOLEAN
    /\ client = FALSE
    /\ userCtx = NoContext
    /\ reqPc = "boot"
    /\ probe = "none"
    /\ primaryCalls = 0
    /\ secondaryCalls = 0
    /\ attempts = <<>>
    /\ payload = "none"
    /\ fbOutcome = "none"
    /\ result = NoResult
    /\ outcome = "pending"
    /\ cause = "none"
    /\ NormIdle
    /\ RagIdle
    /\ OllIdle
    /\ LoopIdle
    /\ PromptIdle
    /\ IdxIdle
    /\ DbIdle

\* ai_service.py lines 13-24, run when main.py imports the router: the client is
\* built only from a key that is non-blank at import time, and the constructor
\* may fail.
ImportAiService ==
    /\ reqPc = "boot"
    /\ \E ctorOk \in BOOLEAN :
         client' = (apiKey # "" /\ Strip(Spell(apiKey)) # <<>> /\ ctorOk)
    /\ reqPc' = "imported"
    /\ UNCHANGED <<apiKey, offline, secretKey, userCtx, probe, primaryCalls, secondaryCalls,
                   attempts, payload, fbOutcome, result, outcome, cause, normVars, ragVars, ollVars, loopVars, promptVars, idxVars, dbVars>>

\* cloud_secrets.load_secrets, lines 47-84, awaited in main.lifespan: a non-empty
\* secret replaces the key; the client is not rebuilt.
load_secrets ==
    /\ reqPc = "imported"
    /\ apiKey' = IF secretKey # "" THEN secretKey ELSE apiKey
    /\ reqPc' = "ready"
    /\ UNCHANGED <<client, offline, secretKey, userCtx, probe, primaryCalls, secondaryCalls,
                   attempts, payload, fbOutcome, result, outcome, cause, normVars, ragVars, ollVars, loopVars, promptVars, idxVars, dbVars>>

\* ai_service.analyze_legal_query, lines 138-149: entry, use_fallback is True.
analyze_legal_query ==
    /\ reqPc = "ready"
    /\ \E ctx \in UserContexts : userCtx' = ctx
    /\ reqPc' = "fallback"
    /\ UNCHANGED <<apiKey, client, offline, secretKey, probe, primaryCalls, secondaryCalls,
                   attempts, payload, fbOutcome, result, outcome, cause, normVars, ragVars, ollVars, loopVars, promptVars, idxVars, dbVars>>

\* analyze_legal_query_with_fallback, lines 366-382: the offline flag is only
\* logged; a missing key raises; otherwise the probe runs under wait_for(1.0),
\* which either delivers its value or raises TimeoutError.
analyze_legal_query_with_fallback ==
    /\ reqPc = "fallback"
    /\ \E timedOut \in BOOLEAN :
         LET probed == IF apiKey = "" THEN "none"
                       ELSE IF timedOut THEN "timeout"
                       ELSE IF check_openai_connection(apiKey) THEN "true" ELSE "false"
             route  == fallback_route(apiKey, probed)
         IN  /\ probe' = probed
             /\ IF route = "raise"
                THEN /\ fbOutcome' = "error"
                     /\ cause' = IF apiKey = "" THEN "no_credential" ELSE "not_accessible"
                     /\ reqPc' = "handler"
                ELSE /\ reqPc' = route
                     /\ UNCHANGED <<fbOutcome, cause>>
    /\ UNCHANGED <<apiKey, client, offline, secretKey, userCtx, primaryCalls, secondaryCalls,
                   attempts, payload, result, outcome, normVars, ragVars, ollVars, loopVars, promptVars, idxVars, dbVars>>

\* The model call made by analyze_legal_query_with_fallback (lines 380 and 387)
\* and its return through analyze_legal_query (line 147), or its exception
\* (wrapped at lines 389 and 391) reaching the except branch at line 150.
FallbackAttempt ==
    /\ reqPc \in {"via_openai", "via_ollama"}
    /\ \E resp \in ProviderResponses :
         LET r == IF reqPc = "via_openai" THEN analyze_with_openai(client, userCtx, resp)
                  ELSE analyze_with_ollama(resp)
             n == IF r.requested THEN 1 ELSE 0
         IN  /\ primaryCalls' = IF reqPc = "via_openai" THEN primaryCalls + n ELSE primaryCalls
             /\ secondaryCalls' = IF reqPc = "via_openai" THEN secondaryCalls
                                  ELSE secondaryCalls + n
             /\ attempts' = Append(attempts, r.cause)
             /\ payload' = IF r.requested /\ resp.kind = "response" THEN resp.content
                           ELSE payload
             /\ IF r.raised
                THEN /\ fbOutcome' = "error"
                     /\ cause' = r.cause
                     /\ reqPc' = "handler"
                     /\ UNCHANGED <<result, outcome>>
                ELSE /\ fbOutcome' = "result"
                     /\ result' = r.value
                     /\ outcome' = "result"
                     /\ reqPc' = "done"
                     /\ UNCHANGED cause
    /\ UNCHANGED <<apiKey, client, offline, secretKey, userCtx, probe, normVars, ragVars, ollVars, loopVars, promptVars, idxVars, dbVars>>

\* analyze_legal_query, lines 150-161: the except branch.
FallbackFailed ==
    /\ reqPc = "handler"
    /\ LET next == after_fallback_failure(offline, client)
       IN  IF next \in {"raise_offline", "raise_no_service"}
           THEN /\ outcome' = "error"
                /\ reqPc' = "done"
           ELSE /\ reqPc' = next
                /\ UNCHANGED outcome
    /\ UNCHANGED <<apiKey, client, offline, secretKey, userCtx, probe, primaryCalls,
                   secondaryCalls, attempts, payload, fbOutcome, result, cause, normVars,
                   ragVars, ollVars, loopVars, promptVars, idxVars, dbVars>>

\* analyze_legal_query, lines 163-257: the direct chat-completion call made after
\* the fallback system failed.
DirectAttempt ==
    /\ reqPc \in {"direct_openai", "direct_ollama"}
    /\ \E resp \in ProviderResponses :
         LET r == IF reqPc = "direct_openai" THEN call_openai(userCtx, resp)
                  ELSE analyze_with_ollama(resp)
             n == IF r.requested THEN 1 ELSE 0
         IN  /\ primaryCalls' = IF reqPc = "direct_openai" THEN primaryCalls + n
                                ELSE primaryCalls
             /\ secondaryCalls' = IF reqPc = "direct_openai" THEN secondaryCalls
                                  ELSE secondaryCalls + n
             /\ attempts' = Append(attempts, r.cause)
             /\ payload' = IF r.requested /\ resp.kind = "response" THEN resp.content
                           ELSE payload
             /\ IF r.raised
                THEN /\ outcome' = "error"
                     /\ cause' = r.cause
                     /\ UNCHANGED result
                ELSE /\ outcome' = "result"
                     /\ result' = r.value
                     /\ UNCHANGED cause
    /\ reqPc' = "done"
    /\ UNCHANGED <<apiKey, client, offline, secretKey, userCtx, probe, fbOutcome, normVars,
                   ragVars, ollVars, loopVars, promptVars, idxVars, dbVars>>

Next ==
    \/ ImportAiService
    \/ load_secrets
    \/ analyze_legal_query
    \/ analyze_legal_query_with_fallback
    \/ FallbackAttempt
    \/ FallbackFailed
    \/ DirectAttempt

Spec == ReqInit /\ [][Next]_vars

(***************************************************************************)
(* Properties of one analysis request (checked under Spec).                *)
(***************************************************************************)
Done == reqPc = "done"

\* C2: whatever the Primary provider answers, the result handed back to the caller
\* of the Primary path holds every analysis field with its declared type.
C2_PrimaryResultWellTyped == (Done /\ outcome = "result") => WellTyped(result)

C4_OnePrimaryCall == primaryCalls <= 1

\* C5: when the offline-mode flag is set, or the credential-presence probe is
\* negative, no Primary inference request is issued.
C5_NoPrimaryWhenOfflineOrProbeNegative ==
    (offline \/ ~check_openai_connection(apiKey)) => primaryCalls = 0

\* C6: a request made with no API credential and the offline flag unset attempts
\* the Secondary backend before it ends.
C6_SecondaryAttemptedWithoutCredential ==
    (Done /\ apiKey = "" /\ ~offline) => secondaryCalls > 0

\* C7: if the Primary attempt fails (provider error, empty response, timeout) the
\* request ends with an error and without a Secondary attempt.
C7_PrimaryFailureTerminal ==
    (Done /\ Len(attempts) >= 1 /\ attempts[1] \in {"unreachable", "no_content", "timeout"})
        => (outcome = "error" /\ secondaryCalls = 0)

\* C8: after a probe timeout exactly one Primary attempt is made, none on the
\* Secondary, and the request ends as that attempt ended.
C8_ProbeTimeoutOnePrimaryAttempt ==
    (Done /\ probe = "timeout")
        => /\ Len(attempts) = 1
           /\ secondaryCalls = 0
           /\ (outcome = "result") <=> (attempts[1] = "ok")

\* Root causes that are a malformed provider payload: empty content, JSON that
\* is not an object.
MalformedPayload == {"no_content", "not_object"}

\* C9: a request fails only because the upstream is unavailable; in particular a
\* malformed provider payload is recovered locally and never makes the request
\* fail.
C9_MalformedPayloadNeverSurfaces ==
    (Done /\ outcome = "error") => cause \notin MalformedPayload

\* C23: once start-up is over, a positive reachability probe
\* (check_openai_connection returns True) implies that the Primary client used by
\* analyze_with_openai is initialized.
C23_ProbePositiveImpliesClient ==
    (reqPc \notin {"boot", "imported"} /\ check_openai_connection(apiKey)) => client

\* C15: when the chat-completion answer is non-empty text that is not JSON, the
\* Primary client does not raise: the result has the raw text as analysis,
\* risk_level "medium", risk_score 50, every list field empty and a
\* risk_explanation saying that JSON parsing failed.
C15_ParseFailureGivesStub ==
    payload = "text" =>
        /\ outcome = "result"
        /\ result["analysis"] = PyStr(RawText)
        /\ result["risk_level"] = PyStr("medium")
        /\ result["risk_score"] = PyInt(50)
        /\ \A f \in ListFields : result[f] = PyList(<<>>)
        /\ result["risk_explanation"] = PyStr("Analysis provided but JSON parsing failed")

\* A request whose chat-completion call was answered with plain text and
\* returned.
C15_Witness ==
    /\ Done
    /\ payload = "text"
    /\ Len(attempts) = 1
    /\ attempts[1] = "ok"
    /\ primaryCalls = 1

(***************************************************************************)
(* SpecOllama: one call of model_service.analyze_with_ollama, as the       *)
(* scripts of the repository make it.  ollIn holds                         *)
(*   edge   what edge_optimization.is_edge_device() answers                *)
(*   model  settings.OLLAMA_MODEL                                          *)
(*   resp   what the inference server answers to POST /api/chat            *)
(***************************************************************************)
MaxTextLen == 1001

OllamaModels == {"", "qwen:0.5b", "llama3.2:3b", "mistral"}

\* A text of n characters that is not JSON.
Filler(n) == [i \in 1..n |-> "x"]

RawTexts ==
    {Spell(RawText)} \cup {Filler(n) : n \in {ANALYSIS_LIMIT - 1, ANALYSIS_LIMIT, MaxTextLen}}

OllamaResponses ==
    {[kind |-> k, content |-> "empty", text |-> <<>>, obj |-> AllMissing] :
        k \in {"unreachable", "timeout", "status_error"}}
    \cup {[kind |-> "response", content |-> c, text |-> <<>>, obj |-> AllMissing] :
            c \in {"empty", "null", "json_list"}}
    \cup {[kind |-> "response", content |-> "text", text |-> x, obj |-> AllMissing] :
            x \in RawTexts}
    \cup {[kind |-> "response", content |-> "json_object", text |-> <<>>, obj |-> o] :
            o \in PayloadObjects}

OllamaInputs == [edge : BOOLEAN, model : OllamaModels, resp : OllamaResponses]

\* edge_optimization.get_optimal_model_size, lines 76-107.
get_optimal_model_size(in) ==
    IF in.edge THEN "qwen:0.5b"
    ELSE IF in.model # "" /\ in.model # "qwen:0.5b" THEN in.model
    ELSE "llama3.2:3b"

\* analyze_with_ollama, lines 179-228: the model name, the time bound and the
\* options of the request.
ollama_request(in) ==
    [model       |-> IF in.edge THEN get_optimal_model_size(in)
                     ELSE IF in.model = "qwen:0.5b" THEN "llama3.2:3b"
                     ELSE in.model,
     timeout     |-> IF in.edge THEN 180 ELSE 120,
     num_predict |-> IF in.edge THEN 800 ELSE 1200,
     num_ctx     |-> 1024]

OllInit ==
    /\ ollIn \in OllamaInputs
    /\ ollPc = "start"
    /\ ollOut = NoOllamaOutput
    /\ NormIdle
    /\ ReqIdle
    /\ RagIdle
    /\ LoopIdle
    /\ PromptIdle
    /\ IdxIdle
    /\ DbIdle

\* One call analyze_with_ollama(query_text, domain, user_context, language,
\* rag_context).
AnalyzeWithOllama ==
    /\ ollPc = "start"
    /\ ollOut' = [request |-> ollama_request(ollIn), reply |-> analyze_with_ollama(ollIn.resp)]
    /\ ollPc' = "done"
    /\ UNCHANGED <<ollIn, normVars, reqVars, ragVars, loopVars, promptVars, idxVars, dbVars>>

OllNext == AnalyzeWithOllama

SpecOllama == OllInit /\ [][OllNext]_vars

\* The first n characters of a text.
Prefix(text, n) == [i \in 1..(IF Len(text) < n THEN Len(text) ELSE n) |-> text[i]]

\* C16: when the Secondary answers with text that is not JSON, the result has that
\* text cut to its first 1000 characters as analysis,
\* lawyer_consultation_recommended true, and the fixed placeholder roadmap and
\* warning entries.
C16_OllamaTextGivesStub ==
    (ollPc = "done" /\ ollIn.resp.kind = "response" /\ ollIn.resp.content = "text") =>
        /\ ~ollOut.reply.raised
        /\ ollOut.reply.value["analysis"] = PyText(Prefix(ollIn.resp.text, 1000))
        /\ ollOut.reply.value["lawyer_consultation_recommended"] = PyBool(TRUE)
        /\ ollOut.reply.value["preventive_roadmap"]
               = PyList(<<"step 1: Review the analysis provided">>)
        /\ ollOut.reply.value["warnings"]
               = PyList(<<"This is an automated analysis. Consult a lawyer for complex matters.">>)

\* A call answered with a text longer than 1000 characters, whose analysis is
\* 1000 characters long.
C16_Witness ==
    /\ ollPc = "done"
    /\ ollIn.resp.kind = "response" /\ ollIn.resp.content = "text"
    /\ Len(ollIn.resp.text) > 1000
    /\ ~ollOut.reply.raised
    /\ Len(ollOut.reply.value["analysis"].l) = 1000

\* The request the same call would send on a device of the other class.
RequestOnDevice(edge) == ollama_request([ollIn EXCEPT !.edge = edge])

\* C21: on an edge device the response-length cap and the context window of the
\* Secondary request are both strictly smaller than on a non-edge device, and the
\* time bound of the request is 180 s on edge and 120 s otherwise.
C21_EdgeTuning ==
    ollPc = "done" =>
        /\ RequestOnDevice(TRUE).num_predict < RequestOnDevice(FALSE).num_predict
        /\ RequestOnDevice(TRUE).num_ctx < RequestOnDevice(FALSE).num_ctx
        /\ ollOut.request.timeout = IF ollIn.edge THEN 180 ELSE 120

\* C30: for every device class and configured OLLAMA_MODEL, the model name sent
\* to the inference server is the name get_optimal_model_size() returns.
C30_ModelNameIsOptimal ==
    ollPc = "done" => ollOut.request.model = get_optimal_model_size(ollIn)

(***************************************************************************)
(* SpecRetrieve: one call of rag_service.retrieve_relevant_context.        *)
(* ragIn holds the arguments and the environment of the call:              *)
(*   skip_if_offline, top_k   arguments                                    *)
(*   offline, key             settings.USE_OFFLINE_MODE, OPENAI_API_KEY    *)
(*   embeddings               rag_service.embeddings is initialized        *)
(*   embed                    "ok" | "error": what aembed_query does       *)
(*   index                    pinecone_service.index is initialized        *)
(*   query                    "ok" | "error" | "bad_rows": what index.query*)
(*                            does; "bad_rows" answers matches that lack   *)
(*                            the id / score attributes                    *)
(*   hits                     the matches the index holds for the query,   *)
(*                            in the index's order; a hit is [s, ok] with  *)
(*                            s its score and ok = FALSE for a score of    *)
(*                            None                                         *)
(***************************************************************************)
MaxHits == 6
ShortHits == 2
TopKs == {1, 10}
RETURN_TOP == 5

HitVals == {[s |-> 1, ok |-> TRUE], [s |-> 2, ok |-> TRUE], [s |-> 0, ok |-> FALSE]}
HitLists(n) == UNION {[1..k -> HitVals] : k \in 0..n}

RagInputs ==
    [skip_if_offline : BOOLEAN, offline : BOOLEAN, key : {"", "sk"}, embeddings : BOOLEAN,
     embed : {"ok", "error"}, index : BOOLEAN, query : {"ok", "error", "bad_rows"},
     hits : HitLists(ShortHits), top_k : TopKs]
    \cup
    [skip_if_offline : {TRUE}, offline : {FALSE}, key : {"sk"}, embeddings : {TRUE},
     embed : {"ok"}, index : {TRUE}, query : {"ok"},
     hits : HitLists(MaxHits), top_k : TopKs]

Ok(v)  == [raised |-> FALSE, value |-> v]
Thrown == [raised |-> TRUE, value |-> <<>>]

\* rag_service.generate_embeddings, lines 43-52.
generate_embeddings(in) ==
    IF ~in.embeddings THEN Thrown
    ELSE IF in.embed = "error" THEN Thrown
    ELSE Ok(<<>>)

\* The rows index.query answers: at most top_k of the hits, in the index's order.
IndexQuery(in) ==
    [i \in 1..Min(in.top_k, Len(in.hits)) |->
        [id |-> i, score |-> in.hits[i].s, scored |-> in.hits[i].ok]]

\* pinecone_service.query_vectors, lines 85-129: no index, or any exception while
\* querying or reading the matches, gives the empty list.
query_vectors(in) ==
    IF ~in.index THEN Ok(<<>>)
    ELSE IF in.query # "ok" THEN Ok(<<>>)
    ELSE Ok(IndexQuery(in))

\* rag_service.search_vector_db, lines 106-139: the rows are re-shaped one by one
\* (text, score, metadata), in the same order.
search_vector_db(in) == query_vectors(in)

\* Mutant: a descending sort that puts a row before the rows of equal score.
RECURSIVE InsertDescendingUnstable(_, _)
InsertDescendingUnstable(row, sorted) ==
    IF sorted = <<>> THEN <<row>>
    ELSE IF Head(sorted).score > row.score
         THEN <<Head(sorted)>> \o InsertDescendingUnstable(row, Tail(sorted))
         ELSE <<row>> \o sorted

\* sorted(results, key=score, reverse=True): stable, so of two rows with the same
\* score the one that came first stays first.
RECURSIVE InsertDescending(_, _)
InsertDescending(row, sorted) ==
    IF sorted = <<>> THEN <<row>>
    ELSE IF Head(sorted).score >= row.score
         THEN <<Head(sorted)>> \o InsertDescending(row, Tail(sorted))
         ELSE <<row>> \o sorted

RECURSIVE SortedDescending(_)
SortedDescending(rows) ==
    IF rows = <<>> THEN <<>>
    ELSE InsertDescending(rows[Len(rows)],
                          SortedDescending(SubSeq(rows, 1, Len(rows) - 1)))

\* rag_service.rank_results, lines 142-145.  Comparing a score of None raises
\* TypeError; a list of fewer than two rows is never compared.
rank_results(rows) ==
    IF Len(rows) >= 2 /\ \E i \in 1..Len(rows) : ~rows[i].scored THEN Thrown
    ELSE Ok(SortedDescending(rows))

\* The body of the try block of retrieve_relevant_context, lines 76-98.
retrieve_body(in) ==
    IF in.skip_if_offline /\ (in.offline \/ in.key = "") THEN Ok(<<>>)
    ELSE IF generate_embeddings(in).raised THEN Thrown
    ELSE IF search_vector_db(in).raised THEN Thrown
    ELSE LET ranked == rank_results(search_vector_db(in).value)
         IN  IF ranked.raised THEN Thrown
             ELSE Ok(SubSeq(ranked.value, 1, Min(RETURN_TOP, Len(ranked.value))))

\* Mutant: the try block without its except clause.
retrieve_without_except(in) == retrieve_body(in)

\* rag_service.retrieve_relevant_context, lines 55-103: every exception of the
\* body is caught and answered with the empty list.
retrieve_relevant_context(in) ==
    IF retrieve_body(in).raised THEN Ok(<<>>) ELSE retrieve_body(in)

RagInit ==
    /\ ragIn \in RagInputs
    /\ ragPc = "start"
    /\ ragOut = [raised |-> FALSE, value |-> <<>>]
    /\ NormIdle
    /\ ReqIdle
    /\ OllIdle
    /\ LoopIdle
    /\ PromptIdle
    /\ IdxIdle
    /\ DbIdle

Retrieve ==
    /\ ragPc = "start"
    /\ ragOut' = retrieve_relevant_context(ragIn)
    /\ ragPc' = "done"
    /\ UNCHANGED <<ragIn, normVars, reqVars, ollVars, loopVars, promptVars, idxVars, dbVars>>

RagNext == Retrieve

SpecRetrieve == RagInit /\ [][RagNext]_vars

(***************************************************************************)
(* Properties of retrieval (checked under SpecRetrieve).                   *)
(***************************************************************************)
RetrievalDisabled(in) == in.skip_if_offline /\ (in.offline \/ in.key = "")

\* Something on the retrieval path fails: no embedding client or a failing
\* embedding request, no index or a failing / malformed query answer, or rows
\* whose scores cannot be compared.
RetrievalPathFails(in) ==
    \/ ~in.embeddings
    \/ in.embed = "error"
    \/ ~in.index
    \/ in.query # "ok"
    \/ /\ Min(in.top_k, Len(in.hits)) >= 2
       /\ \E i \in 1..Min(in.top_k, Len(in.hits)) : ~in.hits[i].ok

\* C10: retrieve_relevant_context never raises, and it returns the empty list when
\* retrieval is disabled by configuration or anything on its path fails.
C10_RetrieveFailsSoft ==
    ragPc = "done" =>
        /\ ~ragOut.raised
        /\ (RetrievalDisabled(ragIn) \/ RetrievalPathFails(ragIn)) => ragOut.value = <<>>

\* A call whose embedding request raised although retrieval was enabled and the
\* index held matches.
C10_Witness ==
    /\ ragPc = "done"
    /\ ~RetrievalDisabled(ragIn)
    /\ ragIn.embeddings /\ ragIn.embed = "error"
    /\ ragIn.index /\ ragIn.query = "ok" /\ Len(ragIn.hits) > 0
    /\ ragOut = Ok(<<>>)

\* Retrieval is enabled and nothing on its path fails.
RetrievalSucceeds(in) == ~RetrievalDisabled(in) /\ ~RetrievalPathFails(in)

\* Row a comes before row b in the stable descending order: a higher score, or
\* the same score and an earlier place in the index's answer.
Before(a, b) == a.score > b.score \/ (a.score = b.score /\ a.id < b.id)

\* out is the first RETURN_TOP rows of the stable descending order of cand.
IsTopOfStableDescending(out, cand) ==
    /\ Len(out) = Min(RETURN_TOP, Len(cand))
    /\ \A j \in 1..Len(out) : \E i \in 1..Len(cand) : cand[i] = out[j]
    /\ \A j, k \in 1..Len(out) : j < k => Before(out[j], out[k])
    /\ \A i \in 1..Len(cand) :
          \/ \E j \in 1..Len(out) : out[j] = cand[i]
          \/ \A j \in 1..Len(out) : Before(out[j], cand[i])

\* C11: when retrieval succeeds, retrieve_relevant_context returns the first five
\* of the candidates the index answered, in descending order of score, rows of
\* equal score in the index's order.
C11_TopFiveOfStableSort ==
    (ragPc = "done" /\ RetrievalSucceeds(ragIn))
        => IsTopOfStableDescending(ragOut.value, IndexQuery(ragIn))

\* A successful call on six candidates that arrive in ascending order with a tie
\* among them: the answer is reordered and truncated.
C11_Witness ==
    /\ ragPc = "done"
    /\ RetrievalSucceeds(ragIn)
    /\ ragIn.top_k = 10
    /\ Len(ragIn.hits) = 6
    /\ ragIn.hits[1].s = 1 /\ ragIn.hits[2].s = 1 /\ ragIn.hits[6].s = 2
    /\ Len(ragOut.value) = RETURN_TOP
    /\ ragOut.value[1].id = 6

(***************************************************************************)
(* SpecLoop: NumTasks requests served concurrently by the one asyncio      *)
(* event loop of the process (main.py runs a single uvicorn process; every *)
(* handler is an `async def`).  A request runs only while it owns the      *)
(* loop.  It gives the loop up where it awaits an asynchronous call; a     *)
(* synchronous call made inside the coroutine keeps the loop until the     *)
(* call returns.  A request of backend "primary" follows                   *)
(* queries.process_query_async / public.public_chat: retrieval (embedding  *)
(* request, vector-store query) when it is not skipped, then               *)
(* analyze_legal_query.  A request of backend "secondary" is a direct call *)
(* of analyze_with_ollama.  The probe check_openai_connection does no I/O  *)
(* and is not a call of its own here.                                      *)
(***************************************************************************)
ExternalCalls == {"embedding", "vector_query", "primary_inference", "secondary_inference"}

\* The call is awaited on an asynchronous client, so the coroutine suspends:
\*   embedding            await embeddings.aembed_query(text)   rag_service.py:48
\*   vector_query         index.query(...)                      pinecone_service.py:108
\*   primary_inference    client.chat.completions.create(...)   model_service.py:116,
\*                        on the synchronous openai.OpenAI      ai_service.py:198
\*   secondary_inference  await client.post(...) on httpx.AsyncClient
\*                                                              model_service.py:208
Suspends(c) == c \in {"embedding", "secondary_inference"}

\* The call is made with a time bound of its own:
\*   primary_inference    timeout=30.0                 model_service.py:125
\*   secondary_inference  httpx.AsyncClient(timeout=timeout), 120 / 180 s
\*                                                     model_service.py:200-207
\* aembed_query and index.query are called without one.
HasTimeout(c) == c \in {"primary_inference", "secondary_inference"}

\* What a call can come back with.
CallOutcomes(c) == IF HasTimeout(c) THEN {"ok", "error", "timeout"} ELSE {"ok", "error"}

\* The external call a request makes at a position.
CallAt(pc, backend) ==
    CASE pc = "embed" -> "embedding"
      [] pc = "query" -> "vector_query"
      [] pc \in {"infer", "retry"} ->
            IF backend = "primary" THEN "primary_inference" ELSE "secondary_inference"

\* Where a request goes when a call has come back: a failed embedding request
\* ends retrieval (rag_service.py:100-103); query_vectors swallows its errors
\* (pinecone_service.py:127-129); a failed Primary call made by the fallback
\* system is followed by the direct call (ai_service.py:150-198); a request to
\* the Secondary ends either way.
AfterCall(pc, backend, out) ==
    CASE pc = "embed" -> IF out = "ok" THEN "query" ELSE "infer"
      [] pc = "query" -> "infer"
      [] pc = "infer" -> IF backend = "primary" /\ out # "ok" THEN "retry" ELSE "finish"
      [] pc = "retry" -> "finish"

LoopInit ==
    /\ taskRag \in [Tasks -> BOOLEAN]
    /\ taskBackend \in [Tasks -> {"primary", "secondary"}]
    /\ taskPc = [t \in Tasks |-> "new"]
    /\ taskCall = [t \in Tasks |-> "none"]
    /\ loopOwner = 0
    /\ NormIdle
    /\ ReqIdle
    /\ RagIdle
    /\ OllIdle
    /\ PromptIdle
    /\ IdxIdle
    /\ DbIdle

\* The event loop is free and resumes a request that is ready to run.
Schedule(t) ==
    /\ loopOwner = 0
    /\ taskPc[t] # "done"
    /\ taskCall[t] = "none"
    /\ loopOwner' = t
    /\ UNCHANGED <<taskRag, taskBackend, taskPc, taskCall, normVars, reqVars, ragVars, ollVars, promptVars, idxVars, dbVars>>

\* The request enters its handler: retrieval first, unless it is skipped
\* (public.py:45-61, rag_service.py:78-80) or the request is a direct call of
\* analyze_with_ollama.
Enter(t) ==
    /\ loopOwner = t
    /\ taskPc[t] = "new"
    /\ taskPc' = [taskPc EXCEPT ![t] =
                     IF taskBackend[t] = "primary" /\ taskRag[t] THEN "embed" ELSE "infer"]
    /\ UNCHANGED <<taskRag, taskBackend, taskCall, loopOwner, normVars, reqVars, ragVars,
                   ollVars, promptVars, idxVars, dbVars>>

\* The request issues its next external call.  An awaited call gives the loop
\* up; a synchronous one keeps it.
BeginCall(t) ==
    /\ loopOwner = t
    /\ taskPc[t] \in {"embed", "query", "infer", "retry"}
    /\ taskCall[t] = "none"
    /\ LET c == CallAt(taskPc[t], taskBackend[t])
       IN  /\ taskCall' = [taskCall EXCEPT ![t] = c]
           /\ loopOwner' = IF Suspends(c) THEN 0 ELSE t
    /\ UNCHANGED <<taskRag, taskBackend, taskPc, normVars, reqVars, ragVars, ollVars, promptVars, idxVars, dbVars>>

\* The call in flight comes back: with an answer, an error, or (if it has a
\* time bound) the expiry of the bound.
CallReturns(t) ==
    /\ taskCall[t] # "none"
    /\ \E out \in CallOutcomes(taskCall[t]) :
         taskPc' = [taskPc EXCEPT ![t] = AfterCall(taskPc[t], taskBackend[t], out)]
    /\ taskCall' = [taskCall EXCEPT ![t] = "none"]
    /\ UNCHANGED <<taskRag, taskBackend, loopOwner, normVars, reqVars, ragVars, ollVars, promptVars, idxVars, dbVars>>

\* The handler returns (or raises) and the loop is free again.
Finish(t) ==
    /\ loopOwner = t
    /\ taskPc[t] = "finish"
    /\ taskPc' = [taskPc EXCEPT ![t] = "done"]
    /\ loopOwner' = 0
    /\ UNCHANGED <<taskRag, taskBackend, taskCall, normVars, reqVars, ragVars, ollVars, promptVars, idxVars, dbVars>>

LoopNext ==
    \E t \in Tasks :
        \/ Schedule(t)
        \/ Enter(t)
        \/ BeginCall(t)
        \/ CallReturns(t)
        \/ Finish(t)

SpecLoop == LoopInit /\ [][LoopNext]_vars

\* The loop keeps running the requests that are ready, and a call that has a
\* time bound comes back; a call without one is left to the remote side.
LoopFairness ==
    \A t \in Tasks :
        /\ WF_vars(Schedule(t))
        /\ WF_vars(Enter(t))
        /\ WF_vars(BeginCall(t))
        /\ WF_vars(Finish(t))
        /\ WF_vars(CallReturns(t) /\ HasTimeout(taskCall[t]))

SpecLoopFair == SpecLoop /\ LoopFairness

\* C17: every external call is a suspension point: while a request's call is in
\* flight the event loop is not held by that request, so the other requests can
\* run.
C17_CallsYieldTheLoop ==
    \A t \in Tasks : taskCall[t] # "none" => loopOwner # t

\* C18: every request eventually completes, with a result or an error.
C18_EveryRequestCompletes == \A t \in Tasks : <>(taskPc[t] = "done")

(***************************************************************************)
(* SpecPrompt: one call of build_system_prompt and build_user_prompt, of   *)
(* ai_service (used by analyze_legal_query and analyze_with_openai) or of  *)
(* model_service (used by analyze_with_ollama).  A prompt is the sequence  *)
(* of its parts; a part is a literal of the source or the value of an      *)
(* argument, and carries the name of the argument it comes from.           *)
(***************************************************************************)
MaxChunks == 2

PromptModules == {"ai_service", "model_service"}
QueryTexts == {"", "rent", "What happens if my landlord raises rent without notice?"}
Languages == {"en", "hi", "ta"}

\* rag_context: None, or a list of up to MaxChunks chunks.
RagContexts ==
    {[given |-> FALSE, chunks |-> <<>>]}
    \cup {[given |-> TRUE, chunks |-> [i \in 1..k |-> "chunk"]] : k \in 0..MaxChunks}

\* user_context maps as UserContexts, and those whose location is a string.
PromptContexts ==
    UserContexts \cup [user_type : {"missing", "farmer"}, location : {"text"}]

PromptInputs ==
    [module : PromptModules, query_text : QueryTexts, rag_context : RagContexts,
     language : Languages, user_context : PromptContexts]

Literal(x) == [from |-> "literal", text |-> x]
Argument(name, x) == [from |-> name, text |-> x]

\* Mutant: a context section is appended whether or not chunks were retrieved.
build_user_prompt_with_context(in) ==
    <<Literal("Legal Query: "), Argument("query_text", in.query_text), Literal("\n\n"),
      Literal("Provide concise legal analysis with risk assessment, preventive roadmap, and key legal references for Indian law."),
      Argument("rag_context", "Relevant context:")>>
    \o [i \in 1..Len(in.rag_context.chunks) |-> Argument("rag_context", in.rag_context.chunks[i])]

\* ai_service.build_user_prompt, lines 286-296.
build_user_prompt(in) ==
    <<Literal("Legal Query: "), Argument("query_text", in.query_text), Literal("\n\n"),
      Literal("Provide concise legal analysis with risk assessment, preventive roadmap, and key legal references for Indian law.")>>

\* model_service.build_user_prompt, lines 316-326.
model_service_build_user_prompt(in) ==
    <<Literal("Q: "), Argument("query_text", in.query_text),
      Literal("\n\nReturn JSON only.")>>

\* model_service.build_system_prompt, lines 290-313: a fixed text around the
\* domain; user_context is not read.
model_service_build_system_prompt(ctx) ==
    [raised |-> FALSE, user_type |-> "unused", location |-> "unused"]

PromptInit ==
    /\ promptIn \in PromptInputs
    /\ promptPc = "start"
    /\ promptOut = [system |-> "none", user |-> <<>>]
    /\ NormIdle
    /\ ReqIdle
    /\ RagIdle
    /\ OllIdle
    /\ LoopIdle
    /\ IdxIdle
    /\ DbIdle

\* The two calls made before a model request (ai_service lines 167-170,
\* model_service lines 89-90 and 196-197).
BuildPrompts ==
    /\ promptPc = "start"
    /\ promptOut' =
          IF promptIn.module = "ai_service"
          THEN [system |-> build_system_prompt(promptIn.user_context),
                user |-> build_user_prompt(promptIn)]
          ELSE [system |-> model_service_build_system_prompt(promptIn.user_context),
                user |-> model_service_build_user_prompt(promptIn)]
    /\ promptPc' = "done"
    /\ UNCHANGED <<promptIn, normVars, reqVars, ragVars, ollVars, loopVars, idxVars, dbVars>>

PromptNext == BuildPrompts

SpecPrompt == PromptInit /\ [][PromptNext]_vars

\* C19: when retrieval gave no chunks (rag_context empty or None), the user
\* prompt is still built and is made of fixed text and the query text only: no
\* part of it comes from the context or from any other argument.
C19_UserPromptFromQueryOnly ==
    (promptPc = "done" /\ promptIn.rag_context.chunks = <<>>) =>
        /\ promptOut.user # <<>>
        /\ \E i \in 1..Len(promptOut.user) :
              promptOut.user[i] = Argument("query_text", promptIn.query_text)
        /\ \A i \in 1..Len(promptOut.user) :
              promptOut.user[i].from \in {"literal", "query_text"}

\* A user prompt built by ai_service for a non-empty query with rag_context None.
C19_Witness ==
    /\ promptPc = "done"
    /\ promptIn.module = "ai_service"
    /\ ~promptIn.rag_context.given
    /\ promptIn.query_text = "rent"
    /\ Len(promptOut.user) = 4

\* C20: build_system_prompt returns a prompt without raising for every
\* user_context (absent, without user_type, without location, with a null or
\* non-map location); it uses "citizen" when user_type is missing and an empty
\* location when location is missing.
C20_SystemPromptNeverRaises ==
    promptPc = "done" =>
        /\ ~promptOut.system.raised
        /\ promptIn.module = "ai_service" =>
              /\ promptIn.user_context.user_type = "missing"
                    => promptOut.system.user_type = "citizen"
              /\ promptIn.user_context.location = "missing"
                    => promptOut.system.location = "empty_map"

(***************************************************************************)
(* SpecIndex: one upload handled by /transcribe (endpoints/ai.py) or by    *)
(* /index-document (endpoints/knowledge_base.py), the latter down to       *)
(* rag_service.index_document and pinecone_service.upsert_vectors.         *)
(* A chunk text is a number: equal numbers are equal strings.              *)
(***************************************************************************)

\* Longest document whose every chunk list is enumerated.
MaxDocChunks == 2

\* Length of the long documents, which need more than one batch.
LongDoc == 101

BATCH_SIZE == 100

ChunkTexts == {1, 2}

\* Results of split_document: every short list of chunk texts, and long lists
\* whose chunks are all different, or all different but the last one.
Documents ==
    UNION {[1..n -> ChunkTexts] : n \in 0..MaxDocChunks}
      \cup {[i \in 1..LongDoc |-> i],
            [i \in 1..LongDoc |-> IF i = LongDoc THEN 1 ELSE i]}

FailingBatches == {0, 1, 2}

IndexInputs ==
    [endpoint : {"transcribe"}, ext : {"webm"}, chunks : {<<>>}, read_ok : BOOLEAN,
     processed_ok : BOOLEAN, embed_ok : {TRUE}, index_initialized : {TRUE},
     upsert_raises_at : {0}]
      \cup
    [endpoint : {"index_document"}, ext : {"pdf", "txt", "docx"}, chunks : Documents,
     read_ok : BOOLEAN, processed_ok : BOOLEAN, embed_ok : BOOLEAN,
     index_initialized : BOOLEAN, upsert_raises_at : FailingBatches]

\* list.index(x): the 0-based position of the first element equal to x.
ListIndex(list, x) ==
    (CHOOSE i \in 1..Len(list) : list[i] = x /\ \A j \in 1..(i - 1) : list[j] # x) - 1

\* f"{metadata.get('source', 'unknown')}_{chunk_index}": the endpoint always
\* sets metadata["source"], and decimal formatting of an index is one-to-one.
VectorId(source, chunk_index) == <<source, chunk_index>>

\* chunk_index as the position in the list, for comparison.
chunk_vectors_by_position(chunks) ==
    [k \in 1..Len(chunks) |->
        [id |-> VectorId("source_name", k - 1), text |-> chunks[k], chunk_index |-> k - 1]]

\* The two loops of index_document that build chunk_embeddings and vectors.
chunk_vectors(chunks) ==
    [k \in 1..Len(chunks) |->
        [id |-> VectorId("source_name", ListIndex(chunks, chunks[k])),
         text |-> chunks[k],
         chunk_index |-> ListIndex(chunks, chunks[k])]]

\* vectors[i:i + batch_size]
Batch(vectors, i) == SubSeq(vectors, i + 1, Min(i + BATCH_SIZE, Len(vectors)))

\* pinecone_service.upsert_vectors for batch number no: what it returns and
\* the ids the index holds afterwards.
upsert_vectors(batch, no) ==
    IF ~idxIn.index_initialized \/ idxIn.upsert_raises_at = no
    THEN [returned |-> FALSE, store |-> idxStore]
    ELSE [returned |-> TRUE, store |-> idxStore \cup {batch[k].id : k \in DOMAIN batch}]

IdxInit ==
    /\ idxIn \in IndexInputs
    /\ idxPc = "start"
    /\ tmpExists = FALSE
    /\ idxVectors = <<>>
    /\ idxBatch = 0
    /\ idxReturns = <<>>
    /\ idxStore = {}
    /\ idxOut = NoIndexResult
    /\ NormIdle
    /\ ReqIdle
    /\ RagIdle
    /\ OllIdle
    /\ LoopIdle
    /\ PromptIdle
    /\ DbIdle

\* The extension test of /index-document, then NamedTemporaryFile(delete=False).
CreateTemp ==
    /\ idxPc = "start"
    /\ IF idxIn.endpoint = "index_document" /\ idxIn.ext \notin {"pdf", "txt"}
       THEN /\ idxPc' = "done"
            /\ idxOut' = [idxOut EXCEPT !.status = 400]
            /\ UNCHANGED tmpExists
       ELSE /\ idxPc' = "temp"
            /\ tmpExists' = TRUE
            /\ UNCHANGED idxOut
    /\ UNCHANGED <<idxIn, idxVectors, idxBatch, idxReturns, idxStore, normVars, reqVars,
                   ragVars, ollVars, loopVars, promptVars, dbVars>>

\* content = await file.read(); tmp_file.write(content), inside the with
\* block and before the try whose finally removes the file.  In /transcribe the
\* outer except turns the exception into a 500, in /index-document it leaves
\* the handler and the framework answers 500.
ReadUpload ==
    /\ idxPc = "temp"
    /\ IF idxIn.read_ok
       THEN /\ idxPc' = "saved"
            /\ UNCHANGED idxOut
       ELSE /\ idxPc' = "done"
            /\ idxOut' = [idxOut EXCEPT !.status = 500]
    /\ UNCHANGED <<idxIn, tmpExists, idxVectors, idxBatch, idxReturns, idxStore, normVars,
                   reqVars, ragVars, ollVars, loopVars, promptVars, dbVars>>

\* /transcribe: transcribe_audio inside try / finally.
Transcribe ==
    /\ idxPc = "saved"
    /\ idxIn.endpoint = "transcribe"
    /\ tmpExists' = FALSE
    /\ idxOut' = [idxOut EXCEPT !.status = IF idxIn.processed_ok THEN 200 ELSE 500]
    /\ idxPc' = "done"
    /\ UNCHANGED <<idxIn, idxVectors, idxBatch, idxReturns, idxStore, normVars, reqVars,
                   ragVars, ollVars, loopVars, promptVars, dbVars>>

\* /index-document up to the call of index_document: index_pdf_document finds
\* no text (or fails to read the PDF) and returns False; reading the .txt file
\* as UTF-8 raises inside the try, so that the finally removes the file.
ExtractText ==
    /\ idxPc = "saved"
    /\ idxIn.endpoint = "index_document"
    /\ IF idxIn.processed_ok /\ ~(idxIn.ext = "pdf" /\ idxIn.chunks = <<>>)
       THEN /\ idxPc' = "text"
            /\ UNCHANGED <<tmpExists, idxOut>>
       ELSE IF idxIn.ext = "pdf"
       THEN /\ idxPc' = "respond"
            /\ idxOut' = [idxOut EXCEPT !.success = "false"]
            /\ UNCHANGED tmpExists
       ELSE /\ idxPc' = "done"
            /\ tmpExists' = FALSE
            /\ idxOut' = [idxOut EXCEPT !.status = 500]
    /\ UNCHANGED <<idxIn, idxVectors, idxBatch, idxReturns, idxStore, normVars, reqVars,
                   ragVars, ollVars, loopVars, promptVars, dbVars>>

\* index_document, lines 166-191: split, embed every chunk, build the vectors.
\* A failing generate_embeddings is caught by the except of index_document.
EmbedChunks ==
    /\ idxPc = "text"
    /\ IF idxIn.embed_ok \/ idxIn.chunks = <<>>
       THEN /\ idxVectors' = chunk_vectors(idxIn.chunks)
            /\ idxPc' = "upsert"
            /\ UNCHANGED idxOut
       ELSE /\ idxOut' = [idxOut EXCEPT !.success = "false"]
            /\ idxPc' = "respond"
            /\ UNCHANGED idxVectors
    /\ UNCHANGED <<idxIn, tmpExists, idxBatch, idxReturns, idxStore, normVars, reqVars,
                   ragVars, ollVars, loopVars, promptVars, dbVars>>

\* One round of the batch loop, lines 195-197: the value of upsert_vectors is
\* dropped.
UpsertBatch ==
    /\ idxPc = "upsert"
    /\ idxBatch < Len(idxVectors)
    /\ LET r == upsert_vectors(Batch(idxVectors, idxBatch), Len(idxReturns) + 1)
       IN  /\ idxStore' = r.store
           /\ idxReturns' = Append(idxReturns, r.returned)
    /\ idxBatch' = idxBatch + BATCH_SIZE
    /\ UNCHANGED <<idxIn, idxPc, tmpExists, idxVectors, idxOut, normVars, reqVars, ragVars,
                   ollVars, loopVars, promptVars, dbVars>>

\* The end of the loop: return True (line 201).
IndexReturns ==
    /\ idxPc = "upsert"
    /\ idxBatch >= Len(idxVectors)
    /\ idxOut' = [idxOut EXCEPT !.success = "true"]
    /\ idxPc' = "respond"
    /\ UNCHANGED <<idxIn, tmpExists, idxVectors, idxBatch, idxReturns, idxStore, normVars,
                   reqVars, ragVars, ollVars, loopVars, promptVars, dbVars>>

\* knowledge_base.py lines 84-93: the answer, then the finally.
Respond ==
    /\ idxPc = "respond"
    /\ idxOut' = [idxOut EXCEPT !.status = IF idxOut.success = "true" THEN 200 ELSE 500]
    /\ tmpExists' = FALSE
    /\ idxPc' = "done"
    /\ UNCHANGED <<idxIn, idxVectors, idxBatch, idxReturns, idxStore, normVars, reqVars,
                   ragVars, ollVars, loopVars, promptVars, dbVars>>

IdxNext ==
    \/ CreateTemp
    \/ ReadUpload
    \/ Transcribe
    \/ ExtractText
    \/ EmbedChunks
    \/ UpsertBatch
    \/ IndexReturns
    \/ Respond

SpecIndex == IdxInit /\ [][IdxNext]_vars

\* C22: index_document returns True only if upsert_vectors reported success for
\* every batch; when it reported failure for some batch, index_document returns
\* False and /index-document does not answer with success.
C22_UpsertFailureIsReported ==
    (idxPc = "done" /\ \E k \in DOMAIN idxReturns : ~idxReturns[k]) =>
        (idxOut.success = "false" /\ idxOut.status # 200)

\* C28: when /transcribe or /index-document has finished, the temporary file
\* it created no longer exists, whatever step failed after its creation.
C28_TempFileRemoved ==
    idxPc = "done" => ~tmpExists

\* C29: every chunk gets its position as chunk_index, the vector ids of one
\* document are pairwise distinct, and as many distinct vectors are upserted as
\* the document has chunks, identical chunk texts included.
C29_ChunkIndexIsPosition ==
    (idxPc = "done" /\ idxOut.success = "true" /\ \A k \in DOMAIN idxReturns : idxReturns[k]) =>
        /\ idxVectors = chunk_vectors_by_position(idxIn.chunks)
        /\ \A j, k \in DOMAIN idxVectors : j # k => idxVectors[j].id # idxVectors[k].id
        /\ Cardinality(idxStore) = Len(idxIn.chunks)

(***************************************************************************)
(* SpecDb: the relational store (models/query.py, ai_response.py,          *)
(* feedback.py) under create_query, the background process_query_async of  *)
(* each query, and concurrent get_query, delete_query and submit_feedback  *)
(* requests (endpoints/queries.py, endpoints/feedback.py).  Every request  *)
(* and every background task has its own session: a SELECT reads the       *)
(* committed rows when it is executed, the writes of a session reach the   *)
(* tables at its commit, all together or not at all, and a commit that     *)
(* breaks a declared constraint is rolled back.                            *)
(***************************************************************************)

FeedbackPayloads ==
    {[rating |-> 1, was_helpful |-> FALSE], [rating |-> 5, was_helpful |-> TRUE]}

Operations == {"get_query", "delete_query", "submit_feedback"}

\* The rows of a table that reference query q.
Rows(table, q) == {i \in DOMAIN table : table[i].query_id = q}

HasOtherQuery(row, q) == row.query_id # q

\* DELETE ... WHERE query_id = q
WithoutQuery(table, q) == SelectSeq(table, LAMBDA row : HasOtherQuery(row, q))

owned_query_any_user(q, u) == dbQueries[q] # NoRow

\* select(Query).where(Query.id == query_id, Query.user_id == current_user.id)
\* followed by scalar_one_or_none(): a row was found.
owned_query(q, u) == dbQueries[q] # NoRow /\ dbQueries[q].user_id = u

foreign_key_unchecked(q) == TRUE

\* ForeignKey("queries.id") of ai_responses.query_id and feedback.query_id: a
\* row that references q can be inserted only while the queries row exists.
foreign_key_holds(q) == dbQueries[q] # NoRow

mark_failed_skipped(row) == row

\* query.status = QueryStatus.FAILED
mark_failed(row) == [row EXCEPT !.status = "failed"]

DbInit ==
    /\ DbIdle
    /\ NormIdle
    /\ ReqIdle
    /\ RagIdle
    /\ OllIdle
    /\ LoopIdle
    /\ PromptIdle
    /\ IdxIdle

\* create_query by user u: the row is committed with status PROCESSING and the
\* background task is registered.  q is the fresh uuid of the row.
CreateQuery(u, q) ==
    /\ procPc[q] = "none"
    /\ dbQueries' = [dbQueries EXCEPT ![q] = [user_id |-> u, status |-> "processing"]]
    /\ procPc' = [procPc EXCEPT ![q] = "scheduled"]
    /\ UNCHANGED <<dbResponses, dbFeedback, deleted, lastFeedback, reqs, normVars, reqVars,
                   ragVars, ollVars, loopVars, promptVars, idxVars>>

\* process_query_async, lines 72-77: load the query, return when it is gone.
ProcLoad(q) ==
    /\ procPc[q] = "scheduled"
    /\ procPc' = [procPc EXCEPT ![q] = IF dbQueries[q] = NoRow THEN "returned" ELSE "loaded"]
    /\ UNCHANGED <<dbQueries, dbResponses, dbFeedback, deleted, lastFeedback, reqs, normVars,
                   reqVars, ragVars, ollVars, loopVars, promptVars, idxVars>>

\* Lines 80-121: retrieval, user context, analysis and the AIResponse object;
\* any of them may raise into the except of line 133.
ProcAnalyse(q) ==
    /\ procPc[q] = "loaded"
    /\ \E raised \in BOOLEAN :
          procPc' = [procPc EXCEPT ![q] = IF raised THEN "excepted" ELSE "analysed"]
    /\ UNCHANGED <<dbQueries, dbResponses, dbFeedback, deleted, lastFeedback, reqs, normVars,
                   reqVars, ragVars, ollVars, loopVars, promptVars, idxVars>>

\* Lines 123-129: db.add(ai_response), status COMPLETED, one commit.  The
\* commit is refused when the queries row is gone, when ai_responses already
\* has a row for the query (unique=True), or when a value does not fit its
\* column; the session is rolled back and the except of line 133 runs.
ProcCommit(q) ==
    /\ procPc[q] = "analysed"
    /\ \E accepted \in BOOLEAN :
          IF foreign_key_holds(q) /\ Rows(dbResponses, q) = {} /\ accepted
          THEN /\ dbResponses' = Append(dbResponses, [query_id |-> q])
               /\ dbQueries' = IF dbQueries[q] = NoRow THEN dbQueries
                               ELSE [dbQueries EXCEPT ![q].status = "completed"]
               /\ procPc' = [procPc EXCEPT ![q] = "done"]
          ELSE /\ procPc' = [procPc EXCEPT ![q] = "excepted"]
               /\ UNCHANGED <<dbQueries, dbResponses>>
    /\ UNCHANGED <<dbFeedback, deleted, lastFeedback, reqs, normVars, reqVars, ragVars,
                   ollVars, loopVars, promptVars, idxVars>>

\* Lines 133-136: status FAILED and commit.  The UPDATE of a row that is gone
\* matches nothing and the task ends with the error of that commit.
ProcFail(q) ==
    /\ procPc[q] = "excepted"
    /\ IF dbQueries[q] # NoRow
       THEN /\ dbQueries' = [dbQueries EXCEPT ![q] = mark_failed(@)]
            /\ procPc' = [procPc EXCEPT ![q] = "done"]
       ELSE /\ procPc' = [procPc EXCEPT ![q] = "raised"]
            /\ UNCHANGED dbQueries
    /\ UNCHANGED <<dbResponses, dbFeedback, deleted, lastFeedback, reqs, normVars, reqVars,
                   ragVars, ollVars, loopVars, promptVars, idxVars>>

\* The first statement of get_query, delete_query and submit_feedback: the
\* ownership SELECT, and the 404 when it finds nothing.
SelectQuery(r, op, u, q, data) ==
    /\ reqs[r].pc = "idle"
    /\ \A k \in Slots : k < r => reqs[k].pc # "idle"
    /\ reqs' = [reqs EXCEPT ![r] =
                   [op |-> op, user |-> u, query_id |-> q, data |-> data, seen |-> 0,
                    pc |-> IF owned_query(q, u) THEN "checked" ELSE "done",
                    status |-> IF owned_query(q, u) THEN 0 ELSE 404]]
    /\ UNCHANGED <<dbQueries, dbResponses, dbFeedback, deleted, lastFeedback, procPc, normVars,
                   reqVars, ragVars, ollVars, loopVars, promptVars, idxVars>>

\* get_query, lines 158-182: SELECT of the AIResponse with scalar_one_or_none.
GetResponse(r) ==
    /\ reqs[r].pc = "checked"
    /\ reqs[r].op = "get_query"
    /\ reqs' = [reqs EXCEPT ![r].pc = "done",
                            ![r].status =
                                IF Cardinality(Rows(dbResponses, reqs[r].query_id)) > 1
                                THEN 500 ELSE 200]
    /\ UNCHANGED <<dbQueries, dbResponses, dbFeedback, deleted, lastFeedback, procPc, normVars,
                   reqVars, ragVars, ollVars, loopVars, promptVars, idxVars>>

\* delete_query, line 235: DELETE FROM ai_responses WHERE query_id, executed
\* in the session's transaction: it removes the rows that exist now.
DeleteResponses(r) ==
    /\ reqs[r].pc = "checked"
    /\ reqs[r].op = "delete_query"
    /\ reqs' = [reqs EXCEPT ![r].pc = "selected",
                            ![r].seen = Cardinality(Rows(dbResponses, reqs[r].query_id))]
    /\ UNCHANGED <<dbQueries, dbResponses, dbFeedback, deleted, lastFeedback, procPc, normVars,
                   reqVars, ragVars, ollVars, loopVars, promptVars, idxVars>>

\* delete_query, lines 238-239: db.delete(query) and commit.  The commit is
\* refused when the row is already gone or when a row of ai_responses (added
\* since the DELETE above) or of feedback still references the query.
DeleteCommit(r) ==
    /\ reqs[r].pc = "selected"
    /\ reqs[r].op = "delete_query"
    /\ LET q == reqs[r].query_id
       IN  IF /\ dbQueries[q] # NoRow
              /\ Cardinality(Rows(dbResponses, q)) <= reqs[r].seen
              /\ Rows(dbFeedback, q) = {}
           THEN /\ dbResponses' = WithoutQuery(dbResponses, q)
                /\ dbQueries' = [dbQueries EXCEPT ![q] = NoRow]
                /\ deleted' = deleted \cup {q}
                /\ reqs' = [reqs EXCEPT ![r].pc = "done", ![r].status = 204]
           ELSE /\ reqs' = [reqs EXCEPT ![r].pc = "done", ![r].status = 500]
                /\ UNCHANGED <<dbQueries, dbResponses, deleted>>
    /\ UNCHANGED <<dbFeedback, lastFeedback, procPc, normVars, reqVars, ragVars, ollVars,
                   loopVars, promptVars, idxVars>>

\* submit_feedback, lines 49-52: SELECT of the Feedback of the query with
\* scalar_one_or_none, which raises when it finds more than one row.
SelectFeedback(r) ==
    /\ reqs[r].pc = "checked"
    /\ reqs[r].op = "submit_feedback"
    /\ LET found == Rows(dbFeedback, reqs[r].query_id)
       IN  reqs' = IF Cardinality(found) > 1
                   THEN [reqs EXCEPT ![r].pc = "done", ![r].status = 500]
                   ELSE [reqs EXCEPT ![r].pc = "selected",
                                     ![r].seen = IF found = {} THEN 0
                                                 ELSE CHOOSE i \in found : TRUE]
    /\ UNCHANGED <<dbQueries, dbResponses, dbFeedback, deleted, lastFeedback, procPc, normVars,
                   reqVars, ragVars, ollVars, loopVars, promptVars, idxVars>>

\* submit_feedback, lines 54-74: update the row found, or add a new one, and
\* commit.
FeedbackCommit(r) ==
    /\ reqs[r].pc = "selected"
    /\ reqs[r].op = "submit_feedback"
    /\ LET q == reqs[r].query_id
           d == reqs[r].data
       IN  IF reqs[r].seen # 0
           THEN /\ dbFeedback' = [dbFeedback EXCEPT ![reqs[r].seen].rating = d.rating,
                                                    ![reqs[r].seen].was_helpful = d.was_helpful]
                /\ lastFeedback' = [lastFeedback EXCEPT ![q] = d]
                /\ reqs' = [reqs EXCEPT ![r].pc = "done", ![r].status = 201]
           ELSE IF foreign_key_holds(q)
           THEN /\ dbFeedback' = Append(dbFeedback,
                                        [query_id |-> q, user_id |-> reqs[r].user,
                                         rating |-> d.rating, was_helpful |-> d.was_helpful])
                /\ lastFeedback' = [lastFeedback EXCEPT ![q] = d]
                /\ reqs' = [reqs EXCEPT ![r].pc = "done", ![r].status = 201]
           ELSE /\ reqs' = [reqs EXCEPT ![r].pc = "done", ![r].status = 500]
                /\ UNCHANGED <<dbFeedback, lastFeedback>>
    /\ UNCHANGED <<dbQueries, dbResponses, deleted, procPc, normVars, reqVars, ragVars,
                   ollVars, loopVars, promptVars, idxVars>>

DbNext ==
    \/ \E u \in Users, q \in QueryIds : CreateQuery(u, q)
    \/ \E q \in QueryIds : ProcLoad(q)
    \/ \E q \in QueryIds : ProcAnalyse(q)
    \/ \E q \in QueryIds : ProcCommit(q)
    \/ \E q \in QueryIds : ProcFail(q)
    \/ \E r \in Slots, u \in Users, q \in QueryIds :
          \/ SelectQuery(r, "get_query", u, q, NoFeedback)
          \/ SelectQuery(r, "delete_query", u, q, NoFeedback)
          \/ \E data \in FeedbackPayloads : SelectQuery(r, "submit_feedback", u, q, data)
    \/ \E r \in Slots : GetResponse(r)
    \/ \E r \in Slots : DeleteResponses(r)
    \/ \E r \in Slots : DeleteCommit(r)
    \/ \E r \in Slots : SelectFeedback(r)
    \/ \E r \in Slots : FeedbackCommit(r)

SpecDb == DbInit /\ [][DbNext]_vars

C25_DeleteIsFinal ==
    \A q \in deleted : dbQueries[q] = NoRow /\ Rows(dbResponses, q) = {}

\* The background task had loaded the query before the delete committed and
\* tried its commits after it.
C25_Witness ==
    \E q \in deleted : procPc[q] = "raised"

\* C26: after any interleaving of submit_feedback calls for one query, at most
\* one Feedback row exists for the query and it holds the values of the last
\* committed submission.
C26_OneFeedbackPerQuery ==
    \A q \in QueryIds :
        /\ Cardinality(Rows(dbFeedback, q)) <= 1
        /\ \A i \in Rows(dbFeedback, q) :
              [rating |-> dbFeedback[i].rating, was_helpful |-> dbFeedback[i].was_helpful]
                  = lastFeedback[q]

NotOwner(q, u) == dbQueries[q] # NoRow /\ dbQueries[q].user_id # u

\* C27: get_query, delete_query and submit_feedback called for a query owned by
\* another user answer 404, end there, and leave every Query, AIResponse and
\* Feedback row as it was.
C27_OnlyOwnerActs ==
    [][\A r \in Slots :
          (reqs[r].pc = "idle" /\ reqs'[r].pc # "idle"
             /\ NotOwner(reqs'[r].query_id, reqs'[r].user))
          => /\ reqs'[r].pc = "done"
             /\ reqs'[r].status = 404
             /\ <<dbQueries, dbResponses, dbFeedback>>' = <<dbQueries, dbResponses, dbFeedback>>]_vars

C27_Witness ==
    \E r \in Slots :
        /\ reqs[r].pc = "done"
        /\ reqs[r].status = 404
        /\ reqs[r].op = "delete_query"
        /\ NotOwner(reqs[r].query_id, reqs[r].user)

====
